---- MODULE Spec2Model ----
(***************************************************************************)
(* Model of the inventory/order backend: the product and order tables, the *)
(* CRUD handlers of crud.py as called by router.py, the analytics          *)
(* aggregation of analytics_service.py / repo/analytics_repo.py, and the   *)
(* signup of auth/router.py.                                               *)
(*                                                                         *)
(* The store is the configured one (core/config.py: sqlite): integer       *)
(* primary keys are max(rowid)+1, foreign keys are not enforced, and       *)
(* date(...) yields text.                                                  *)
(***************************************************************************)
EXTENDS Integers, Sequences, FiniteSets, TLC

\* An Optional value: Python None / SQL NULL is the empty set, a value v is {v}
None == {}
Some(v) == {v}
Get(o) == CHOOSE v \in o : TRUE
Optional(S) == {None} \cup {Some(v) : v \in S}

-----------------------------------------------------------------------------
(* Bounds of the exploration *)

NumOrgs == 2
MaxProducts == 2
\* orders placed while stock of every kind is edited freely (Spec), and in
\* the specifications that fix the payloads (MaxOrders)
CatalogOrders == 1
MaxOrders == 2
MaxQty == 2
MaxPrice == 2
\* order timestamps are 0..MaxTime, TicksPerDay of them to a calendar day
MaxTime == 5
TicksPerDay == 2
\* requests in flight at once (SpecConc)
NumProcs == 2

Orgs == 1..NumOrgs
\* the ids a caller may name; an id is that of no row until it is assigned,
\* and a product id again after its row is deleted
ProductIds == 1..MaxProducts
OrderIds == 1..MaxOrders
\* ProductCreate.quantity / OrderCreate.quantity are plain ints: no lower bound
Quantities == (-1)..MaxQty
Prices == 1..MaxPrice
Times == 0..MaxTime
\* the emails and organization names signups are made with
Emails == {"u@x", "v@x"}
OrgNames == {"x", "y"}
\* product names (str, NOT NULL) in the order ORDER BY sorts them, and
\* descriptions (Optional[str])
Collation == <<"a", "b">>
Names == {Collation[i] : i \in DOMAIN Collation}
Descriptions == Optional({"d"})

-----------------------------------------------------------------------------
(* State *)

VARIABLES
    products,   \* product table: id -> row         (models.py Product)
    orders,     \* order table: sequence of rows, id = index (models.py Order)
    last,       \* the last request and its outcome as the caller sees it
    sess,       \* per concurrent request: the Session's loaded objects
    owner,      \* history: live product id -> org_id passed to create_product
    placer,     \* history: order id -> org_id passed to create_order
    organizations,  \* organization table: sequence of rows (models.py Organization)
    users       \* user table: sequence of rows      (models.py User)

vars == <<products, orders, last, sess, owner, placer, organizations, users>>

Product(org, name, description, price, quantity) ==
    [organization_id |-> org, name |-> name, description |-> description,
     price |-> price, quantity |-> quantity]

Order(org, pid, quantity, order_date, total_price, is_fulfilled) ==
    [organization_id |-> org, product_id |-> pid, quantity |-> quantity,
     order_date |-> order_date, total_price |-> total_price,
     is_fulfilled |-> is_fulfilled]

\* A request and its outcome: the operation, the caller's organization, the
\* id the request names (0: none), the quantity an order asks for, the result,
\* the id of the row returned (0: none), and the product.quantity values the
\* stock check read (none when the handler returned before it)
Response(op, org, id, quantity, result, row, stock) ==
    [op |-> op, org_id |-> org, id |-> id, quantity |-> quantity,
     result |-> result, row |-> row, stock |-> stock]

\* a response together with the request body it answers
Sent(response, data) == response @@ ("body" :> data)

\* results
OK == "ok"
NotFound == "404 Product not found"
Unprocessable == "422 Unprocessable Entity"
ValueError == "ValueError: Product not found or does not belong to the organization."
ReturnedNone == "None"
StorageFailure == "commit failed, rolled back"
UserExists == "400 User already exists"
OrgRequired == "400 Organization name is required"
IntegrityError == "IntegrityError: UNIQUE constraint failed"
Outcome(ok) == IF ok THEN OK ELSE StorageFailure

Idle == [pc |-> "idle"]

Init ==
    /\ products = << >>
    /\ orders = << >>
    /\ last = Response("none", 0, 0, 0, "none", 0, << >>)
    /\ sess = [p \in 1..NumProcs |-> Idle]
    /\ owner = << >>
    /\ placer = << >>
    /\ organizations = << >>
    /\ users = << >>

-----------------------------------------------------------------------------
(* Storage helpers *)

RECURSIVE SetMax(_)
SetMax(S) ==
    IF S = {} THEN 0
    ELSE LET x == CHOOSE y \in S : TRUE
             m == SetMax(S \ {x})
         IN IF x > m THEN x ELSE m

\* INTEGER PRIMARY KEY without AUTOINCREMENT: the next id is max(rowid) + 1
NextProductId == SetMax(DOMAIN products) + 1

\* the organization check left out
AccessibleAnyOrg(org, pid) ==
    pid \in DOMAIN products

\* db.get(Product, product_id) followed by the organization check
Accessible(org, pid) ==
    /\ pid \in DOMAIN products
    /\ products[pid].organization_id = org

\* db.commit(): the pending changes become durable together, or the
\* transaction is rolled back and nothing changes
Commit(ok, old, new) == IF ok THEN new ELSE old

-----------------------------------------------------------------------------
(* Catalog Store: crud.py as called by router.py *)

\* the bodies of POST /products: quantity is a required int
ProductCreate(names, descriptions, prices, quantities) ==
    [name : names, description : descriptions, price : prices,
     quantity : quantities]

\* crud.create_product: Product(**data.model_dump(), organization_id=org_id);
\* the organization id is the caller's, never the body's
create_product(org, data, ok) ==
    LET id == NextProductId
        row == Product(org, data.name, data.description, data.price,
                       Some(data.quantity))
    IN
    /\ id <= MaxProducts
    /\ products' = Commit(ok, products, products @@ (id :> row))
    /\ owner' = Commit(ok, owner, owner @@ (id :> org))
    /\ last' = Response("create_product", org, 0, 0, Outcome(ok), IF ok THEN id ELSE 0, << >>)
    /\ UNCHANGED <<organizations, users, orders, sess, placer>>

\* for key, value in data.model_dump(exclude_unset=True).items(): setattr(...)
\* data is the dict of supplied fields
ApplyUpdate(row, data) ==
    [f \in DOMAIN row |-> IF f \in DOMAIN data THEN data[f] ELSE row[f]]

\* the fields of ProductUpdate, each declared Optional[...] without a default:
\* it may be null, and it is required
UpdateFields == {"name", "description", "price", "quantity"}

\* complete bodies of PUT /products/{id} (a null name or price, which the
\* NOT NULL columns refuse at commit, is not among them)
ProductUpdate(names, descriptions, prices, quantities) ==
    [name : names, description : descriptions, price : prices,
     quantity : quantities]

\* body with the fields in S alone
Restrict(body, S) == [f \in S |-> body[f]]

\* the bodies a caller can send: any subset of the fields of a complete one
Partial(bodies) ==
    {Restrict(body, S) : body \in bodies, S \in SUBSET UpdateFields}

ProductUpdates ==
    Partial(ProductUpdate(Names, Descriptions, Prices, Optional(Quantities)))

\* request validation against ProductUpdate: no field has a default, so a
\* body that leaves one out is refused before the handler runs
Valid(data) == DOMAIN data = UpdateFields

\* router.update_product -> crud.update_product; None becomes 404
update_product(org, pid, data, ok) ==
    IF ~Valid(data)
    THEN /\ last' = Sent(Response("update_product", org, pid, 0, Unprocessable,
                                  0, << >>), data)
         /\ UNCHANGED <<organizations, users, products, orders, sess, owner, placer>>
    ELSE IF ~Accessible(org, pid)
    THEN /\ last' = Response("update_product", org, pid, 0, NotFound, 0, << >>)
         /\ UNCHANGED <<organizations, users, products, orders, sess, owner, placer>>
    ELSE /\ products' = Commit(ok, products,
                               [products EXCEPT ![pid] = ApplyUpdate(@, data)])
         /\ last' = Sent(Response("update_product", org, pid, 0, Outcome(ok),
                                  IF ok THEN pid ELSE 0, << >>), data)
         /\ UNCHANGED <<organizations, users, orders, sess, owner, placer>>

Remove(table, id) == [i \in DOMAIN table \ {id} |-> table[i]]

\* the orders on the product deleted with it (ON DELETE CASCADE)
OrdersAfterDeleteCascade(pid) ==
    SelectSeq(orders, LAMBDA order : order.product_id # pid)

\* db.delete(product): the product row alone goes; Order has no cascade and
\* sqlite does not enforce order.product_id, so the orders on it stay
OrdersAfterDelete(pid) == orders

\* router.delete_product checks the row itself (404), then crud.delete_product
delete_product(org, pid, ok) ==
    IF ~Accessible(org, pid)
    THEN /\ last' = Response("delete_product", org, pid, 0, NotFound, 0, << >>)
         /\ UNCHANGED <<organizations, users, products, orders, sess, owner, placer>>
    ELSE /\ products' = Commit(ok, products, Remove(products, pid))
         /\ owner' = Commit(ok, owner, Remove(owner, pid))
         /\ orders' = Commit(ok, orders, OrdersAfterDelete(pid))
         /\ last' = Response("delete_product", org, pid, 0, Outcome(ok), 0, << >>)
         /\ UNCHANGED <<organizations, users, sess, placer>>

\* crud.list_products
list_products(org) == {i \in DOMAIN products : products[i].organization_id = org}

-----------------------------------------------------------------------------
(* Order Engine: crud.py as called by router.py *)

\* the stock check with > for >=
InStockStrict(product, r) ==
    /\ product.quantity # None
    /\ Get(product.quantity) > r

\* product.quantity is not None and product.quantity >= order.quantity
InStock(product, r) ==
    /\ product.quantity # None
    /\ Get(product.quantity) >= r

\* product.quantity -= order.quantity
Decrement(product, r) ==
    [product EXCEPT !.quantity = Some(Get(@) - r)]

\* is_fulfilled kept as the request sent it
NewOrderAsSent(org, data, product) ==
    Order(org, data.product_id, data.quantity, data.order_date, data.total_price,
          data.is_fulfilled)

\* Order(**data.model_dump(), organization_id=org_id), then the stock check
\* overwrites is_fulfilled; total_price and order_date are the body's
NewOrder(org, data, product) ==
    Order(org, data.product_id, data.quantity, data.order_date, data.total_price,
          InStock(product, data.quantity))

\* the decrement applied whenever stock is tracked
StockAfterUnchecked(product, r) ==
    IF product.quantity # None THEN Decrement(product, r) ELSE product

\* the product row create_order leaves in the session
StockAfter(product, r) ==
    IF InStock(product, r) THEN Decrement(product, r) ELSE product

\* the product committed on its own before the order is
CommitOrderSplit(ok, newProducts, newOrders) ==
    <<newProducts, Commit(ok, orders, newOrders)>>

\* db.add(product); db.add(order); db.commit(): one transaction
CommitOrder(ok, newProducts, newOrders) ==
    <<Commit(ok, products, newProducts), Commit(ok, orders, newOrders)>>

\* crud.create_order: ValueError when the product is absent or another tenant's
create_order(org, data, ok) ==
    LET pid == data.product_id IN
    IF ~Accessible(org, pid)
    THEN /\ last' = Sent(Response("create_order", org, pid, data.quantity,
                                  ValueError, 0, << >>), data)
         /\ UNCHANGED <<organizations, users, products, orders, sess, owner, placer>>
    ELSE LET product == products[pid]
             after == StockAfter(product, data.quantity)
             done == CommitOrder(ok, [products EXCEPT ![pid] = after],
                                 Append(orders, NewOrder(org, data, product)))
         IN /\ Len(orders) < MaxOrders
            /\ after.quantity \in Optional(Quantities)
            /\ products' = done[1]
            /\ orders' = done[2]
            /\ placer' = Commit(ok, placer, Append(placer, org))
            /\ last' = Sent(Response("create_order", org, pid, data.quantity,
                                     Outcome(ok), IF ok THEN Len(orders) + 1 ELSE 0,
                                     <<product.quantity>>), data)
            /\ UNCHANGED <<organizations, users, sess, owner>>

\* the stock check skipped for an order that is already fulfilled
RecheckOnce(order, product) ==
    IF order.is_fulfilled THEN product ELSE StockAfter(product, order.quantity)

\* lines 161-166: the stock check and decrement of create_order again,
\* whatever order.is_fulfilled is
Recheck(order, product) == StockAfter(product, order.quantity)

\* crud.update_order_fulfillment_status: None when the order or its product
\* is absent or another tenant's
update_order_fulfillment_status(org, oid, ok) ==
    IF \/ oid \notin DOMAIN orders
       \/ orders[oid].organization_id # org
       \/ ~Accessible(org, orders[oid].product_id)
    THEN /\ last' = Response("update_order_fulfillment_status", org, oid, 0,
                             ReturnedNone, 0, << >>)
         /\ UNCHANGED <<organizations, users, products, orders, sess, owner, placer>>
    ELSE LET order == orders[oid]
             pid == order.product_id
             product == products[pid]
             after == Recheck(order, product)
             done == CommitOrder(ok, [products EXCEPT ![pid] = after],
                                 [orders EXCEPT ![oid].is_fulfilled =
                                      InStock(product, order.quantity)])
         IN /\ after.quantity \in Optional(Quantities)
            /\ products' = done[1]
            /\ orders' = done[2]
            /\ last' = Response("update_order_fulfillment_status", org, oid, 0,
                                Outcome(ok), IF ok THEN oid ELSE 0,
                                <<product.quantity>>)
            /\ UNCHANGED <<organizations, users, sess, owner, placer>>

\* the organization filter left out
list_orders_all(org) == DOMAIN orders

\* crud.list_orders
list_orders(org) == {i \in DOMAIN orders : orders[i].organization_id = org}

\* crud.get_order: the order id, or ValueError("Order not found")
get_order(org, oid) ==
    IF oid \in DOMAIN orders /\ orders[oid].organization_id = org
    THEN Some(oid) ELSE None

-----------------------------------------------------------------------------
(* create_order as concurrent requests run it: each request has its own       *)
(* Session (get_session), db.get reads the row into it, and nothing holds     *)
(* the row until db.commit() flushes the UPDATE and the INSERT.               *)

Loaded(org, data, product) ==
    [pc |-> "loaded", org_id |-> org, data |-> data, product |-> product]

\* lines 100-104: build the order, read the product, refuse if not accessible
create_order_load(p, org, data) ==
    LET pid == data.product_id IN
    /\ sess[p] = Idle
    /\ IF ~Accessible(org, pid)
       THEN /\ last' = Sent(Response("create_order", org, pid, data.quantity,
                                     ValueError, 0, << >>), data)
            /\ UNCHANGED <<organizations, users, products, orders, sess, owner, placer>>
       ELSE /\ sess' = [sess EXCEPT ![p] = Loaded(org, data, products[pid])]
            /\ UNCHANGED <<organizations, users, products, orders, last, owner, placer>>

\* the flush of a dirty product: UPDATE product SET quantity = <the value
\* computed from the row this session read> WHERE id = pid
FlushProduct(pid, read, after) ==
    IF after = read THEN products
    ELSE [products EXCEPT ![pid].quantity = after.quantity]

\* lines 106-115: the stock check on the row read earlier, then the commit
create_order_commit(p) ==
    /\ sess[p] # Idle
    /\ LET org == sess[p].org_id
           data == sess[p].data
           pid == data.product_id
           read == sess[p].product
           after == StockAfter(read, data.quantity)
       IN /\ pid \in DOMAIN products
          /\ products' = FlushProduct(pid, read, after)
          /\ orders' = Append(orders, NewOrder(org, data, read))
          /\ placer' = Append(placer, org)
          /\ last' = Sent(Response("create_order", org, pid, data.quantity, OK,
                                   Len(orders) + 1, <<read.quantity>>), data)
          /\ sess' = [sess EXCEPT ![p] = Idle]
          /\ UNCHANGED <<organizations, users, owner>>

-----------------------------------------------------------------------------
(* Signup: auth/router.py. The catalog and order handlers take the caller's  *)
(* organization id as given and never read these two tables.                *)

Organization(name) == [name |-> name]

User(email, org) == [email |-> email, organization_id |-> org]

\* the bodies of POST /signup; the password, stored hashed, plays no part
UserCreate(emails, names) == [email : emails, organization_name : names]

\* no look-up of the email at all
EmailTakenNever(email) == FALSE

\* db.exec(select(User).where(User.email == data.email)).first()
EmailTaken(email) == \E i \in DOMAIN users : users[i].email = email

\* Organization.name is unique
NameTaken(name) == \E i \in DOMAIN organizations : organizations[i].name = name

\* lines 45-53: the answer to a request refused before anything is written
Refusal(data) ==
    IF EmailTaken(data.email) THEN Some(UserExists)
    ELSE IF data.organization_name = None THEN Some(OrgRequired)
    ELSE None

\* lines 55-59, db.add(org); db.commit(): the result of the first commit
OrgCommit(name, ok) ==
    IF NameTaken(name) THEN IntegrityError ELSE Outcome(ok)

\* lines 69-77, db.add(user); db.commit(): the result of the second commit
UserCommit(email, ok) ==
    IF EmailTaken(email) THEN IntegrityError ELSE Outcome(ok)

Answer(data, result, row) ==
    Sent(Response("signup", 0, 0, 0, result, row, << >>), data)

\* signup, one request at a time: the organization is committed first, the
\* user in a second transaction
signup(data, okOrg, okUser) ==
    /\ UNCHANGED <<products, orders, sess, owner, placer>>
    /\ IF Refusal(data) # None
       THEN /\ last' = Answer(data, Get(Refusal(data)), 0)
            /\ UNCHANGED <<organizations, users>>
       ELSE LET name == Get(data.organization_name)
                org == Len(organizations) + 1
            IN IF OrgCommit(name, okOrg) # OK
               THEN /\ last' = Answer(data, OrgCommit(name, okOrg), 0)
                    /\ UNCHANGED <<organizations, users>>
               ELSE /\ organizations' = Append(organizations, Organization(name))
                    /\ IF UserCommit(data.email, okUser) # OK
                       THEN /\ last' = Answer(data, UserCommit(data.email, okUser), 0)
                            /\ UNCHANGED users
                       ELSE /\ users' = Append(users, User(data.email, org))
                            /\ last' = Answer(data, OK, Len(users) + 1)

\* signup as concurrent requests run it, each in its own Session: the email
\* look-up, the organization's commit and the user's commit are three
\* accesses to the store, and nothing is held between them

\* lines 45-53
signup_check(p, data) ==
    /\ sess[p] = Idle
    /\ UNCHANGED <<products, orders, owner, placer, organizations, users>>
    /\ IF Refusal(data) # None
       THEN /\ last' = Answer(data, Get(Refusal(data)), 0)
            /\ UNCHANGED sess
       ELSE /\ sess' = [sess EXCEPT ![p] = [pc |-> "checked", data |-> data]]
            /\ UNCHANGED last

\* lines 55-65
signup_org(p, ok) ==
    /\ sess[p].pc = "checked"
    /\ UNCHANGED <<products, orders, owner, placer, users>>
    /\ LET data == sess[p].data
           name == Get(data.organization_name)
       IN IF OrgCommit(name, ok) # OK
          THEN /\ last' = Answer(data, OrgCommit(name, ok), 0)
               /\ sess' = [sess EXCEPT ![p] = Idle]
               /\ UNCHANGED organizations
          ELSE /\ organizations' = Append(organizations, Organization(name))
               /\ sess' = [sess EXCEPT ![p] = [pc |-> "org", data |-> data,
                                               org |-> Len(organizations) + 1]]
               /\ UNCHANGED last

\* lines 67-85
signup_user(p, ok) ==
    /\ sess[p].pc = "org"
    /\ UNCHANGED <<products, orders, owner, placer, organizations>>
    /\ sess' = [sess EXCEPT ![p] = Idle]
    /\ LET data == sess[p].data
       IN IF UserCommit(data.email, ok) # OK
          THEN /\ last' = Answer(data, UserCommit(data.email, ok), 0)
               /\ UNCHANGED users
          ELSE /\ users' = Append(users, User(data.email, sess[p].org))
               /\ last' = Answer(data, OK, Len(users) + 1)

-----------------------------------------------------------------------------
(* Analytics Aggregator: repo/analytics_repo.py and analytics_service.py *)

\* datetime.date(): the calendar day of a timestamp
Day(t) == t \div TicksPerDay

\* a calendar day as a Python date, and as the text sqlite's date() returns
PyDate(d) == [type |-> "date", day |-> d]
SqlDate(d) == [type |-> "str", day |-> d]

\* date.isoformat()
IsoFormat(d) == [type |-> "str", day |-> d]

\* WHERE organization_id = org AND order_date >= start AND order_date <= end
OrdersInRange(org, start, end) ==
    {i \in DOMAIN orders : /\ orders[i].organization_id = org
                           /\ orders[i].order_date >= start
                           /\ orders[i].order_date <= end}

\* SUM(total_price) over a group: NULLs are skipped, and the sum of no value
\* is NULL
RECURSIVE SqlSum(_)
SqlSum(group) ==
    IF group = {} THEN None
    ELSE LET i == CHOOSE j \in group : TRUE
             rest == SqlSum(group \ {i})
             v == orders[i].total_price
         IN IF v = None THEN rest
            ELSE IF rest = None THEN v
            ELSE Some(Get(v) + Get(rest))

\* get_sales_trend: one row (date(order_date), SUM(total_price)) per day that
\* has an order in range, as a function from the date column to the sum
get_sales_trend(org, start, end) ==
    LET rows == OrdersInRange(org, start, end)
        days == {Day(orders[i].order_date) : i \in rows}
    IN [k \in {SqlDate(d) : d \in days} |->
            SqlSum({i \in rows : Day(orders[i].order_date) = k.day})]

NoChart == [error |-> "TypeError", labels |-> << >>, data |-> << >>]

\* sales_trend_chart: float(row[1]) raises TypeError on a NULL sum; else one
\* label and one value per day of date_index, the value sales_map.get(d, 0.0)
sales_trend_chart(org, start, end) ==
    LET raw == get_sales_trend(org, start, end)
        days == (Day(end) - Day(start)) + 1
        date_index == [i \in 1..days |-> PyDate(Day(start) + (i - 1))]
    IN IF \E k \in DOMAIN raw : raw[k] = None THEN NoChart
       ELSE [error |-> "",
             labels |-> [i \in 1..days |-> IsoFormat(date_index[i].day)],
             data |-> [i \in 1..days |->
                          IF date_index[i] \in DOMAIN raw
                          THEN Get(raw[date_index[i]]) ELSE 0]]

\* COALESCE(total_price, 0)
Coalesce(v) == IF v = None THEN 0 ELSE Get(v)

NoResultFound == [error |-> "NoResultFound", data |-> << >>]
MultipleResultsFound == [error |-> "MultipleResultsFound", data |-> << >>]

\* get_sales_avg: SELECT coalesce(total_price, 0) over org's orders in range,
\* one row per order and no aggregate, read with .one(), which raises unless
\* there is exactly one row
get_sales_avg(org, start, end) ==
    LET rows == OrdersInRange(org, start, end)
    IN IF rows = {} THEN NoResultFound
       ELSE IF Cardinality(rows) > 1 THEN MultipleResultsFound
       ELSE [error |-> "",
             data |-> <<Coalesce(orders[CHOOSE i \in rows : TRUE].total_price)>>]

\* sales_avg: Dataset(label="avg_sales", data=[avg_sales])
sales_avg(org, start, end) == get_sales_avg(org, start, end)

\* the place of a name in ORDER BY product.name
Rank(name) == CHOOSE i \in DOMAIN Collation : Collation[i] = name

\* ORDER BY product.name over the rows S: the row that comes first, rows of
\* one name in rowid order
First(S) ==
    CHOOSE i \in S : \A j \in S :
        \/ Rank(products[i].name) < Rank(products[j].name)
        \/ products[i].name = products[j].name /\ i <= j

RECURSIVE OrderByName(_)
OrderByName(S) ==
    IF S = {} THEN << >>
    ELSE <<First(S)>> \o OrderByName(S \ {First(S)})

\* get_inventory_levels: (str(name), quantity) of org's rows in name order,
\* the rows with a NULL quantity dropped
get_inventory_levels(org) ==
    LET rows == OrderByName({i \in DOMAIN products :
                                products[i].organization_id = org})
        kept == SelectSeq(rows, LAMBDA i : products[i].quantity # None)
    IN [k \in DOMAIN kept |->
           <<products[kept[k]].name, Get(products[kept[k]].quantity)>>]

\* inventory_chart: labels is the name of raw[0] alone (none when raw is
\* empty), data the quantity of every entry of raw
inventory_chart(org) ==
    LET raw == get_inventory_levels(org)
    IN [labels |-> IF raw # << >> THEN <<raw[1][1]>> ELSE << >>,
        data |-> [k \in DOMAIN raw |-> raw[k][2]]]

-----------------------------------------------------------------------------
(* Requests *)

\* the bodies of POST /orders
OrderCreate(quantities, dates, totals, flags) ==
    [product_id : ProductIds, quantity : quantities, order_date : dates,
     total_price : totals, is_fulfilled : flags]

CreateProduct(bodies, oks) ==
    \E org \in Orgs, data \in bodies, ok \in oks :
        create_product(org, data, ok)

UpdateProduct(bodies, oks) ==
    \E org \in Orgs, pid \in ProductIds, data \in bodies, ok \in oks :
        update_product(org, pid, data, ok)

DeleteProduct(oks) ==
    \E org \in Orgs, pid \in ProductIds, ok \in oks :
        delete_product(org, pid, ok)

CreateOrder(quantities, dates, totals, flags, oks, cap) ==
    /\ Len(orders) < cap
    /\ \E org \in Orgs, data \in OrderCreate(quantities, dates, totals, flags),
          ok \in oks :
           create_order(org, data, ok)

FulfillOrder(oks) ==
    \E org \in Orgs, oid \in OrderIds, ok \in oks :
        update_order_fulfillment_status(org, oid, ok)

\* complete bodies that restate name "a", no description and price 1
StockUpdates == ProductUpdate({"a"}, {None}, {1}, Optional(Quantities))

\* Sequential requests against a healthy store: stock of every kind (null,
\* negative, zero, positive) at price 1, and orders of every quantity placed
\* without a date or a total price
Next ==
    \/ CreateProduct(ProductCreate({"a"}, {None}, {1}, Quantities), {TRUE})
    \/ UpdateProduct(StockUpdates, {TRUE})
    \/ DeleteProduct({TRUE})
    \/ CreateOrder(Quantities, {0}, {None}, {FALSE}, {TRUE}, CatalogOrders)
    \/ FulfillOrder({TRUE})

Spec == Init /\ [][Next]_vars

\* Sequential requests of two tenants, every operation, one payload each:
\* name "a", price 1, quantity 1, restocking to 1
NextTenants ==
    \/ CreateProduct(ProductCreate({"a"}, {None}, {1}, {1}), {TRUE})
    \/ UpdateProduct(ProductUpdate({"a"}, {None}, {1}, {Some(1)}), {TRUE})
    \/ DeleteProduct({TRUE})
    \/ CreateOrder({1}, {0}, {None}, BOOLEAN, {TRUE}, MaxOrders)
    \/ FulfillOrder({TRUE})

SpecTenants == Init /\ [][NextTenants]_vars

\* Products stocked with MaxQty and orders placed on them, where any commit
\* may fail
NextFault ==
    \/ CreateProduct(ProductCreate({"a"}, {None}, Prices, {MaxQty}), BOOLEAN)
    \/ CreateOrder(1..(MaxQty + 1), {0}, {None}, {FALSE}, BOOLEAN, MaxOrders)

SpecFault == Init /\ [][NextFault]_vars

\* A catalog in place: one product per organization, price 1, MaxQty in stock
InitStocked ==
    /\ products = [pid \in Orgs |-> Product(pid, "a", None, 1, Some(MaxQty))]
    /\ owner = [pid \in Orgs |-> pid]
    /\ orders = << >>
    /\ placer = << >>
    /\ last = Response("none", 0, 0, 0, "none", 0, << >>)
    /\ sess = [p \in 1..NumProcs |-> Idle]
    /\ organizations = << >>
    /\ users = << >>

InFlight == Cardinality({p \in DOMAIN sess : sess[p] # Idle})

LoadOrder(p) ==
    /\ Len(orders) + InFlight < MaxOrders
    /\ \E org \in Orgs, data \in OrderCreate(1..MaxQty, {0}, {None}, {FALSE}) :
           create_order_load(p, org, data)

\* Concurrent PlaceOrder requests on the stocked catalog
NextConc ==
    \E p \in 1..NumProcs :
        \/ LoadOrder(p)
        \/ create_order_commit(p)

SpecConc == InitStocked /\ [][NextConc]_vars

\* complete bodies that change the price and restate the rest of the stocked
\* catalog's rows
PriceUpdates == ProductUpdate({"a"}, {None}, Prices, {Some(MaxQty)})

\* Orders with caller-supplied dates and total prices on the stocked catalog,
\* and price changes
NextAnalytics ==
    \/ UpdateProduct(PriceUpdates, {TRUE})
    \/ CreateOrder({1}, Times, Optional(1..MaxPrice), {FALSE}, {TRUE}, MaxOrders)

SpecAnalytics == InitStocked /\ [][NextAnalytics]_vars

\* A catalog of named products, some with stock tracking switched off
NextInventory ==
    \/ CreateProduct(ProductCreate(Names, {None}, {1}, 0..1), {TRUE})
    \/ UpdateProduct(ProductUpdate(Names, {None}, {1}, {None, Some(1)}), {TRUE})
    \/ DeleteProduct({TRUE})

SpecInventory == Init /\ [][NextInventory]_vars

\* A catalog edited with complete and with partial bodies
NextCatalog ==
    \/ CreateProduct(ProductCreate(Names, {None}, Prices, {1}), {TRUE})
    \/ UpdateProduct(Partial(ProductUpdate({"b"}, {None}, Prices, {None})), {TRUE})
    \/ DeleteProduct({TRUE})

SpecCatalog == Init /\ [][NextCatalog]_vars

\* Signups one after another, where either commit may fail
NextSignup ==
    \E data \in UserCreate(Emails, Optional(OrgNames)), okOrg \in BOOLEAN,
       okUser \in BOOLEAN :
        signup(data, okOrg, okUser)

SpecSignup == Init /\ [][NextSignup]_vars

\* Concurrent signups against a healthy store
NextSignupConc ==
    \E p \in 1..NumProcs :
        \/ \E data \in UserCreate(Emails, Optional(OrgNames)) : signup_check(p, data)
        \/ signup_org(p, TRUE)
        \/ signup_user(p, TRUE)

SpecSignupConc == Init /\ [][NextSignupConc]_vars

-----------------------------------------------------------------------------
(* Claims on the Order Engine and the Catalog Store *)

\* the step just taken is a call of op
Called(op) == last'.op = op

\* product pid is a row of organization org
Owns(org, pid) ==
    /\ pid \in DOMAIN products
    /\ products[pid].organization_id = org

\* the last request was a PlaceOrder on a product of the caller's organization
\* (create_order neither deletes a product nor changes its organization)
PlacedOnOwn ==
    /\ last.op = "create_order"
    /\ Owns(last.org_id, last.id)

C3_QuantityNeverNegative ==
    \A pid \in DOMAIN products :
        products[pid].quantity = None \/ Get(products[pid].quantity) >= 0

\* C5: a PlaceOrder naming a product that does not exist, or one of another
\* organization, fails with the one not-found error, creates no order and
\* changes no product.
C5_PlaceOrderNotFound ==
    [][ ( /\ Called("create_order")
          /\ ~Owns(last'.org_id, last'.id) )
        => ( /\ last'.result = ValueError
             /\ orders' = orders
             /\ products' = products ) ]_vars

\* a PlaceOrder was refused on a product another organization has in stock
C5_Witness ==
    /\ last.op = "create_order"
    /\ last.result = ValueError
    /\ last.id \in DOMAIN products
    /\ products[last.id].organization_id # last.org_id
    /\ products[last.id].quantity # None
    /\ Get(products[last.id].quantity) >= last.quantity
    /\ last.quantity > 0

\* C8: update_product and delete_product on a product of another organization
\* answer exactly as on a product that does not exist (404 Product not found)
\* and leave the product table as it was.
C8_ForeignProductNotFound ==
    [][ ( /\ Called("update_product") \/ Called("delete_product")
          /\ ~Owns(last'.org_id, last'.id) )
        => ( /\ last' = Response(last'.op, last'.org_id, last'.id, 0, NotFound, 0, << >>)
             /\ products' = products
             /\ orders' = orders ) ]_vars

\* an update or delete was refused on a product of another organization
C8_Witness ==
    /\ last.op \in {"update_product", "delete_product"}
    /\ last.result = NotFound
    /\ last.id \in DOMAIN products
    /\ products[last.id].organization_id # last.org_id

\* the quantities of the fulfilled orders on product pid, summed
RECURSIVE FulfilledUpTo(_, _)
FulfilledUpTo(pid, n) ==
    IF n = 0 THEN 0
    ELSE FulfilledUpTo(pid, n - 1)
         + (IF orders[n].product_id = pid /\ orders[n].is_fulfilled
            THEN orders[n].quantity ELSE 0)

Fulfilled(pid) == FulfilledUpTo(pid, Len(orders))

\* C4: however concurrent PlaceOrder calls on a product interleave, once they
\* have all returned the fulfilled orders sum to no more than the original
\* quantity, the quantity is the original minus that sum, and it is not
\* negative.
C4_NoOversell ==
    (\A p \in DOMAIN sess : sess[p] = Idle)
    => \A pid \in DOMAIN products :
          /\ Fulfilled(pid) <= MaxQty
          /\ products[pid].quantity = Some(MaxQty - Fulfilled(pid))
          /\ Get(products[pid].quantity) >= 0

\* C6: the order row and the stock decrement of a PlaceOrder are durable
\* together or not at all, also when a commit fails: on products created with
\* MaxQty and changed by PlaceOrder alone, every product's quantity is MaxQty
\* minus the quantities of its fulfilled orders, and a failed PlaceOrder
\* returns no row.
C6_OrderAndStockTogether ==
    /\ \A pid \in DOMAIN products :
          products[pid].quantity = Some(MaxQty - Fulfilled(pid))
    /\ (last.op = "create_order" /\ last.result = StorageFailure)
          => last.row = 0

\* a commit of a PlaceOrder that the stock check had accepted failed, after
\* another one had been fulfilled
C6_Witness ==
    /\ last.op = "create_order"
    /\ last.result = StorageFailure
    /\ last.stock # << >>
    /\ last.stock[1] # None
    /\ Get(last.stock[1]) >= last.quantity
    /\ Fulfilled(last.id) > 0

\* C7: an order's total_price is its quantity times the product's price when
\* it was placed, and no later step changes it.
C7_TotalPriceSnapshot ==
    [][ /\ (Called("create_order") /\ last'.result = OK)
            => orders'[last'.row].total_price
                  = Some(last'.quantity * products[last'.id].price)
        /\ \A i \in DOMAIN orders :
              orders'[i].total_price = orders[i].total_price ]_vars

\* C9: list_products(org) is the products org created and has not deleted,
\* list_orders(org) is the orders org placed, get_order(org, id) is the order
\* id if org placed it and not found otherwise; no read returns a row of
\* another organization.
C9_ReadsAreScoped ==
    \A org \in Orgs :
        /\ list_products(org) = {i \in DOMAIN owner : owner[i] = org}
        /\ list_orders(org) = {i \in DOMAIN placer : placer[i] = org}
        /\ \A i \in list_products(org) : products[i].organization_id = org
        /\ \A i \in list_orders(org) : orders[i].organization_id = org
        /\ \A oid \in OrderIds :
              get_order(org, oid) =
                 IF oid \in DOMAIN placer /\ placer[oid] = org
                 THEN Some(oid) ELSE None

\* both organizations have placed an order, one has deleted its product and
\* the other holds one
C9_Witness ==
    /\ list_orders(1) # {}
    /\ list_orders(2) # {}
    /\ list_products(1) = {}
    /\ list_products(2) # {}
    /\ get_order(1, 2) = None
    /\ get_order(2, 2) = Some(2)

\* the total_price of org's orders in [start, end] on calendar day d, a
\* missing total_price counting 0
RECURSIVE Total(_)
Total(group) ==
    IF group = {} THEN 0
    ELSE LET i == CHOOSE j \in group : TRUE
         IN (IF orders[i].total_price = None THEN 0 ELSE Get(orders[i].total_price))
            + Total(group \ {i})

DaySales(org, start, end, d) ==
    Total({i \in DOMAIN orders : /\ orders[i].organization_id = org
                                 /\ start <= orders[i].order_date
                                 /\ orders[i].order_date <= end
                                 /\ Day(orders[i].order_date) = d})

\* C10: SalesTrend(org, start, end) with end >= start is one point per
\* calendar day from start's to end's, in day order, each the sum of
\* total_price of org's orders of that day within [start, end], 0 for a day
\* without any.
C10_SalesTrendPerDay ==
    \A org \in Orgs, start \in Times, end \in Times :
        start <= end =>
            LET chart == sales_trend_chart(org, start, end)
                days == (Day(end) - Day(start)) + 1
            IN /\ chart.error = ""
               /\ Len(chart.data) = days
               /\ Len(chart.labels) = days
               /\ \A i \in 1..days :
                     /\ chart.labels[i] = IsoFormat(Day(start) + (i - 1))
                     /\ chart.data[i] = DaySales(org, start, end, Day(start) + (i - 1))

\* order oid is a row of organization org
Placed(org, oid) ==
    /\ oid \in DOMAIN orders
    /\ orders[oid].organization_id = org

\* the step just taken is a RecomputeFulfillment of an order of the caller's
\* organization on a product of that organization
Recomputed ==
    /\ Called("update_order_fulfillment_status")
    /\ Placed(last'.org_id, last'.id)
    /\ Owns(last'.org_id, orders[last'.id].product_id)

C15_NonPositiveOrderRefused ==
    [][ ( /\ Called("create_order")
          /\ last'.quantity <= 0 )
        => ( /\ last'.result # OK
             /\ last'.row = 0
             /\ orders' = orders
             /\ products' = products ) ]_vars

\* C16: update_product on a product of the caller's organization writes the
\* supplied value into every field the body supplies, leaves the fields it
\* omits, the id and the organization_id as they were, and returns the row.
C16_PartialUpdate ==
    [][ ( /\ Called("update_product")
          /\ Owns(last'.org_id, last'.id) )
        => LET pid == last'.id
               data == last'.body
           IN /\ last'.result = OK
              /\ last'.row = pid
              /\ DOMAIN products' = DOMAIN products
              /\ \A f \in DOMAIN products[pid] :
                    products'[pid][f] =
                        IF f \in DOMAIN data THEN data[f] ELSE products[pid][f]
      ]_vars

WriteOperations ==
    {"create_product", "update_product", "delete_product", "create_order",
     "update_order_fulfillment_status"}

\* C20: a write operation called with organization A, whether it succeeds or
\* is refused, leaves every product and every order of another organization
\* in place and as it was, and every row it adds carries organization A.
C20_WritesStayInTenant ==
    [][ last'.op \in WriteOperations =>
          LET A == last'.org_id
          IN /\ \A pid \in DOMAIN products :
                   products[pid].organization_id # A =>
                       /\ pid \in DOMAIN products'
                       /\ products'[pid] = products[pid]
             /\ \A i \in DOMAIN orders :
                   orders[i].organization_id # A =>
                       /\ i \in DOMAIN orders'
                       /\ orders'[i] = orders[i]
             /\ \A pid \in DOMAIN products' \ DOMAIN products :
                   products'[pid].organization_id = A
             /\ \A i \in DOMAIN orders' \ DOMAIN orders :
                   orders'[i].organization_id = A ]_vars

\* an organization has placed an order on its own product next to a product
\* in stock and a fulfilled order of another organization
C20_Witness ==
    /\ last.op = "create_order"
    /\ last.result = OK
    /\ orders[last.row].organization_id = last.org_id
    /\ \E pid \in DOMAIN products :
          /\ products[pid].organization_id # last.org_id
          /\ products[pid].quantity = Some(1)
    /\ \E i \in DOMAIN orders :
          /\ orders[i].organization_id # last.org_id
          /\ orders[i].is_fulfilled

\* C21: an order, once created, is never removed and keeps its
\* organization_id, product_id, quantity and total_price through every
\* operation, a RecomputeFulfillment of it and the deletion of its product
\* included; of these fields and is_fulfilled, only is_fulfilled can change.
C21_OrderIsImmutable ==
    [][ \A i \in DOMAIN orders :
          /\ i \in DOMAIN orders'
          /\ orders'[i].organization_id = orders[i].organization_id
          /\ orders'[i].product_id = orders[i].product_id
          /\ orders'[i].quantity = orders[i].quantity
          /\ orders'[i].total_price = orders[i].total_price ]_vars

\* the product of a fulfilled order has been deleted by its organization and
\* the order is still there
C21_Witness ==
    /\ last.op = "delete_product"
    /\ last.result = OK
    /\ last.id \notin DOMAIN products
    /\ \E i \in DOMAIN orders :
          /\ orders[i].product_id = last.id
          /\ orders[i].organization_id = last.org_id
          /\ orders[i].is_fulfilled

-----------------------------------------------------------------------------
(* Claims on the Analytics Aggregator *)

\* C11: InventorySnapshot(org) has one label and one quantity per product of
\* org with a non-null quantity, in ascending name order, label i and
\* quantity i those of the same product; products with a null quantity and
\* products of other organizations are in neither list.
C11_InventorySnapshot ==
    \A org \in Orgs :
        LET chart == inventory_chart(org)
            listed == {i \in DOMAIN products :
                          /\ products[i].organization_id = org
                          /\ products[i].quantity # None}
            n == Cardinality(listed)
        IN /\ Len(chart.labels) = n
           /\ Len(chart.data) = n
           /\ \E at \in [1..n -> listed] :
                 /\ \A i, j \in 1..n : i < j =>
                        /\ at[i] # at[j]
                        /\ Rank(products[at[i]].name) <= Rank(products[at[j]].name)
                 /\ \A i \in 1..n :
                        /\ chart.labels[i] = products[at[i]].name
                        /\ chart.data[i] = Get(products[at[i]].quantity)

\* C12: AverageSales(org, start, end) is one scalar, the sum of total_price
\* over org's orders with start <= order_date <= end, a missing total_price
\* counting 0, whether there are no, one or many such orders.
C12_AverageSalesIsSum ==
    \A org \in Orgs, start \in Times, end \in Times :
        start <= end =>
            sales_avg(org, start, end) =
                [error |-> "",
                 data |-> <<Total({i \in DOMAIN orders :
                                      /\ orders[i].organization_id = org
                                      /\ start <= orders[i].order_date
                                      /\ orders[i].order_date <= end})>>]

-----------------------------------------------------------------------------
(* Claims on Signup *)

\* C17: once no signup is in progress, whatever way each attempt ended, every
\* organization a signup created has its user and every user's organization
\* exists.
C17_SignupAllOrNothing ==
    (\A p \in DOMAIN sess : sess[p] = Idle)
    => /\ \A org \in DOMAIN organizations :
             \E i \in DOMAIN users : users[i].organization_id = org
       /\ \A i \in DOMAIN users : users[i].organization_id \in DOMAIN organizations

\* C18: a signup with an email that is registered already answers 400 User
\* already exists and adds no organization and no user, whatever organization
\* it names; no two users ever share an email.
C18_DuplicateEmailRefused ==
    [][ /\ ( /\ Called("signup")
             /\ \E i \in DOMAIN users : users[i].email = last'.body.email )
           => ( /\ last'.result = UserExists
                /\ last'.row = 0
                /\ organizations' = organizations
                /\ users' = users )
        /\ \A i, j \in DOMAIN users' :
              users'[i].email = users'[j].email => i = j ]_vars

\* a signup with a registered email was refused although it named an
\* organization that does not exist yet
C18_Witness ==
    /\ last.op = "signup"
    /\ last.result = UserExists
    /\ \E i \in DOMAIN users : users[i].email = last.body.email
    /\ last.body.organization_name # None
    /\ \A i \in DOMAIN organizations :
          organizations[i].name # Get(last.body.organization_name)

====
